---- MODULE Spec2Model ----
(***************************************************************************)
(* The shader-program cache of the compositor's render engine:            *)
(*   services/surfaceflinger/RenderEngine/ProgramCache.cpp                 *)
(*   services/surfaceflinger/RenderEngine/Description.cpp                  *)
(*                                                                         *)
(* Numbers.  GLclampf plane alpha is kept in units of 1/AlphaOne, so       *)
(* mPlaneAlpha < 1 reads mPlaneAlpha < AlphaOne.  A mat4 is one number,    *)
(* Identity being mat4().  The float uniforms iterator and saturation      *)
(* only ever receive the integral values 0..5 and 1.0, 2.0 and are kept    *)
(* as these integers.                                                      *)
(***************************************************************************)
EXTENDS Integers, Sequences, FiniteSets, TLC

\* ------------------------------------------------------------------ bounds
AlphaOne     == 2   \* plane alpha values are 0/AlphaOne .. AlphaOne/AlphaOne
MaxMatrix    == 2   \* mat4 values 0..MaxMatrix (0 is the identity)
MaxColor     == 1   \* mColor values 0..MaxColor
MaxBlurNum   == 8   \* blurnum values 0..MaxBlurNum
MaxDim       == 2   \* hwWidth, hwHeight values 1..MaxDim
MaxWin       == 1   \* sx, bx, sy, by values 0..MaxWin
MaxShapeEdits  == 1 \* shape fields a caller of the cache moves off the default
MaxScalarEdits == 1 \* scalar fields a caller of the cache moves off the default
MaxBroken    == 1   \* programs of one cache whose link fails
MaxLazy      == 2   \* programs one cache generates after priming

\* ------------------------------------------------- ProgramCache::Key (enum)
BLEND_PREMULT       == 1
BLEND_NORMAL        == 0
BLEND_MASK          == 1
OPACITY_OPAQUE      == 2
OPACITY_TRANSLUCENT == 0
OPACITY_MASK        == 2
PLANE_ALPHA_LT_ONE  == 4
PLANE_ALPHA_EQ_ONE  == 0
PLANE_ALPHA_MASK    == 4
TEXTURE_OFF         == 0
TEXTURE_EXT         == 8
TEXTURE_2D          == 16
TEXTURE_MASK        == 24
COLOR_MATRIX_OFF    == 0
COLOR_MATRIX_ON     == 32
COLOR_MATRIX_MASK   == 32
WIDE_GAMUT_OFF      == 0
WIDE_GAMUT_ON       == 64
WIDE_GAMUT_MASK     == 64
BLUR_OFF            == 0
BLUR_ON             == 128
BLUR_MASK           == 128
FIRSTAPP_FALSE      == 0
FIRSTAPP_TRUE       == 256
FIRSTAPP_MASK       == 256

\* native texture targets (GLES2/gl2.h, gl2ext.h)
GL_TEXTURE_2D           == 3553
GL_TEXTURE_EXTERNAL_OES == 36197
GL_TEXTURE_CUBE_MAP     == 34067
\* mat4(): the identity
Identity == 0

\* ---------------------------------------------------------- uint32_t bits
RECURSIVE BitAnd(_, _)
BitAnd(x, y) ==
    IF x = 0 \/ y = 0 THEN 0
    ELSE (x % 2) * (y % 2) + 2 * BitAnd(x \div 2, y \div 2)

RECURSIVE BitOr(_, _)
BitOr(x, y) ==
    IF x = 0 THEN y
    ELSE IF y = 0 THEN x
    ELSE (IF x % 2 = 1 \/ y % 2 = 1 THEN 1 ELSE 0) + 2 * BitOr(x \div 2, y \div 2)

\* x & ~mask
BitClear(x, mask) == x - BitAnd(x, mask)

\* Key::Key(): mNeeds(0)
EmptyKey == 0

\* a null Program*
NULL == 0

\* Key::set(mask, value): mNeeds = (mNeeds & ~mask) | value
KeySet(needs, mask, value) == BitOr(BitClear(needs, mask), value)

\* Key accessors
getTextureTarget(needs) == BitAnd(needs, TEXTURE_MASK)
isTexturing(needs)      == BitAnd(needs, TEXTURE_MASK) # TEXTURE_OFF
hasPlaneAlpha(needs)    == BitAnd(needs, PLANE_ALPHA_MASK) = PLANE_ALPHA_LT_ONE
isPremultiplied(needs)  == BitAnd(needs, BLEND_MASK) = BLEND_PREMULT
isOpaque(needs)         == BitAnd(needs, OPACITY_MASK) = OPACITY_OPAQUE
hasColorMatrix(needs)   == BitAnd(needs, COLOR_MATRIX_MASK) = COLOR_MATRIX_ON
isWideGamut(needs)      == BitAnd(needs, WIDE_GAMUT_MASK) = WIDE_GAMUT_ON
isBlur(needs)           == BitAnd(needs, BLUR_MASK) = BLUR_ON
isFirstApp(needs)       == BitAnd(needs, FIRSTAPP_MASK) = FIRSTAPP_TRUE

\* ------------------------------------------------------------ Description
PlaneAlphas    == 0..AlphaOne
Matrices       == 0..MaxMatrix
Colors         == 0..MaxColor
TextureTargets == {GL_TEXTURE_2D, GL_TEXTURE_EXTERNAL_OES, GL_TEXTURE_CUBE_MAP}
BlurNums       == 0..MaxBlurNum
Dims           == 1..MaxDim
Wins           == 0..MaxWin

\* The fields Description::Description() assigns.  It assigns no other field:
\* mTexture, the matrices (mat4() is the identity), mIsWideGamut, mBlur,
\* mFirstApp, blurnum, hwWidth, hwHeight, sx, bx, sy, by are given by rest.
Constructed(rest) ==
    [rest EXCEPT !.mPlaneAlpha = AlphaOne,
                 !.mPremultipliedAlpha = FALSE,
                 !.mOpaque = TRUE,
                 !.mTextureEnabled = FALSE,
                 !.mColorMatrixEnabled = FALSE,
                 !.mColor = 0,
                 !.mProjectionMatrix = Identity,
                 !.mColorMatrix = Identity]

\* The description with every flag the constructor leaves alone off.
Baseline ==
    [mPlaneAlpha |-> AlphaOne, mPremultipliedAlpha |-> FALSE, mOpaque |-> TRUE,
     mTextureEnabled |-> FALSE, mColorMatrixEnabled |-> FALSE, mColor |-> 0,
     mTexture |-> GL_TEXTURE_2D, mProjectionMatrix |-> Identity,
     mColorMatrix |-> Identity, mIsWideGamut |-> FALSE, mBlur |-> FALSE,
     mFirstApp |-> FALSE, blurnum |-> 0, hwWidth |-> 1, hwHeight |-> 1,
     sx |-> 0, bx |-> 0, sy |-> 0, by |-> 0]

\* -------------------------------------------------------------------- state
VARIABLES
    description,  \* the caller's Description object
    needs,        \* the Key returned by the latest computeKey call
    mCache,       \* ProgramCache::mCache: Key -> index into programs
    programs,     \* the Program objects, in the order generateProgram made them
    current,      \* the GL context's active program (0: none)
    uniforms,     \* per linked program, its iterator and saturation uniforms
    glCalls,      \* the GL calls of the latest ProgramCache operation, in order
    program,      \* the Program* the latest ProgramCache operation held (0: NULL)
    lastOp        \* the latest operation

vars == <<description, needs, mCache, programs, current, uniforms,
          glCalls, program, lastOp>>

\* ------------------------------------------------- Description's setters
\* A setter runs outside the cache: the locals of the latest cache operation
\* (needs, program) and its record of GL calls are gone.
Touch(op) == /\ lastOp' = op
             /\ needs' = EmptyKey
             /\ program' = NULL
             /\ glCalls' = <<>>
             /\ UNCHANGED <<mCache, programs, current, uniforms>>

setPlaneAlpha(planeAlpha) ==
    /\ description' = [description EXCEPT !.mPlaneAlpha = planeAlpha]
    /\ Touch("Description")

setPremultipliedAlpha(premultipliedAlpha) ==
    /\ description' = [description EXCEPT !.mPremultipliedAlpha = premultipliedAlpha]
    /\ Touch("Description")

setOpaque(opaque) ==
    /\ description' = [description EXCEPT !.mOpaque = opaque]
    /\ Touch("Description")

setBlur(blur) ==
    /\ description' = [description EXCEPT !.mBlur = blur]
    /\ Touch("Description")

setFirstApp(firstApp) ==
    /\ description' = [description EXCEPT !.mFirstApp = firstApp]
    /\ Touch("Description")

setTexture(texture) ==
    /\ description' = [description EXCEPT !.mTexture = texture,
                                          !.mTextureEnabled = TRUE]
    /\ Touch("Description")

disableTexture ==
    /\ description' = [description EXCEPT !.mTextureEnabled = FALSE]
    /\ Touch("Description")

setColor(color) ==
    /\ description' = [description EXCEPT !.mColor = color]
    /\ Touch("Description")

setProjectionMatrix(mtx) ==
    /\ description' = [description EXCEPT !.mProjectionMatrix = mtx]
    /\ Touch("Description")

setColorMatrix(mtx) ==
    /\ description' = [description EXCEPT !.mColorMatrix = mtx,
                                          !.mColorMatrixEnabled = (mtx # Identity)]
    /\ Touch("Description")

setWideGamut(wideGamut) ==
    /\ description' = [description EXCEPT !.mIsWideGamut = wideGamut]
    /\ Touch("Description")

\* The public fields useProgram and changeUniform read, written by the caller.
setBlurNum(n) ==
    /\ description' = [description EXCEPT !.blurnum = n]
    /\ Touch("Description")

setSize(w, h) ==
    /\ description' = [description EXCEPT !.hwWidth = w, !.hwHeight = h]
    /\ Touch("Description")

setWindow(f, v) ==
    /\ description' = [description EXCEPT ![f] = v]
    /\ Touch("Description")

ShapeSetters ==
    \/ \E a \in PlaneAlphas : setPlaneAlpha(a)
    \/ \E b \in BOOLEAN : setPremultipliedAlpha(b)
    \/ \E b \in BOOLEAN : setOpaque(b)
    \/ \E b \in BOOLEAN : setBlur(b)
    \/ \E b \in BOOLEAN : setFirstApp(b)
    \/ \E t \in TextureTargets : setTexture(t)
    \/ disableTexture
    \/ \E m \in Matrices : setColorMatrix(m)
    \/ \E b \in BOOLEAN : setWideGamut(b)

ScalarSetters ==
    \/ \E c \in Colors : setColor(c)
    \/ \E m \in Matrices : setProjectionMatrix(m)
    \/ \E n \in BlurNums : setBlurNum(n)
    \/ \E w \in Dims, h \in Dims : setSize(w, h)
    \/ \E f \in {"sx", "bx", "sy", "by"}, v \in Wins : setWindow(f, v)

\* How many fields of d are off the baseline.
Off(b) == IF b THEN 1 ELSE 0
ShapeEdits(d) ==
      Off(d.mTextureEnabled \/ d.mTexture # Baseline.mTexture)
    + Off(d.mPlaneAlpha # Baseline.mPlaneAlpha)
    + Off(d.mPremultipliedAlpha # Baseline.mPremultipliedAlpha)
    + Off(d.mOpaque # Baseline.mOpaque)
    + Off(d.mColorMatrix # Baseline.mColorMatrix)
    + Off(d.mIsWideGamut # Baseline.mIsWideGamut)
    + Off(d.mBlur # Baseline.mBlur)
    + Off(d.mFirstApp # Baseline.mFirstApp)
ScalarEdits(d) ==
      Off(d.mColor # Baseline.mColor)
    + Off(d.mProjectionMatrix # Baseline.mProjectionMatrix)
    + Off(d.blurnum # Baseline.blurnum)
    + Off(d.hwWidth # Baseline.hwWidth) + Off(d.hwHeight # Baseline.hwHeight)
    + Off(d.sx # Baseline.sx) + Off(d.bx # Baseline.bx)
    + Off(d.sy # Baseline.sy) + Off(d.by # Baseline.by)

\* Description::Description(): every value the unassigned fields may hold.
NewDescriptions ==
    { Constructed([Baseline EXCEPT !.mTexture = t, !.mIsWideGamut = wg,
                                   !.mBlur = bl, !.mFirstApp = fa, !.blurnum = n,
                                   !.hwWidth = w, !.hwHeight = h,
                                   !.sx = win[1], !.bx = win[2],
                                   !.sy = win[3], !.by = win[4]]) :
        t \in TextureTargets, wg \in BOOLEAN, bl \in BOOLEAN, fa \in BOOLEAN,
        n \in BlurNums, w \in Dims, h \in Dims,
        win \in Wins \X Wins \X Wins \X Wins }

\* a computeKey that sets OPACITY under the BLEND mask
computeKey_OpacityUnderBlendMask(d) ==
    LET k1 == KeySet(EmptyKey, TEXTURE_MASK,
                     IF ~d.mTextureEnabled THEN TEXTURE_OFF
                     ELSE IF d.mTexture = GL_TEXTURE_EXTERNAL_OES THEN TEXTURE_EXT
                     ELSE IF d.mTexture = GL_TEXTURE_2D THEN TEXTURE_2D
                     ELSE TEXTURE_OFF)
        k2 == KeySet(k1, PLANE_ALPHA_MASK,
                     IF d.mPlaneAlpha < AlphaOne THEN PLANE_ALPHA_LT_ONE
                     ELSE PLANE_ALPHA_EQ_ONE)
        k3 == KeySet(k2, BLEND_MASK,
                     IF d.mPremultipliedAlpha THEN BLEND_PREMULT ELSE BLEND_NORMAL)
        k4 == KeySet(k3, BLEND_MASK,
                     IF d.mOpaque THEN OPACITY_OPAQUE ELSE OPACITY_TRANSLUCENT)
        k5 == KeySet(k4, COLOR_MATRIX_MASK,
                     IF d.mColorMatrixEnabled THEN COLOR_MATRIX_ON ELSE COLOR_MATRIX_OFF)
        k6 == KeySet(k5, WIDE_GAMUT_MASK,
                     IF d.mIsWideGamut THEN WIDE_GAMUT_ON ELSE WIDE_GAMUT_OFF)
        k7 == KeySet(k6, BLUR_MASK, IF d.mBlur THEN BLUR_ON ELSE BLUR_OFF)
    IN  KeySet(k7, FIRSTAPP_MASK,
               IF d.mFirstApp THEN FIRSTAPP_TRUE ELSE FIRSTAPP_FALSE)

\* a computeKey that takes BLUR from the tap index rather than from mBlur
computeKey_BlurFromTap(d) ==
    (IF ~d.mTextureEnabled THEN TEXTURE_OFF
     ELSE IF d.mTexture = GL_TEXTURE_EXTERNAL_OES THEN TEXTURE_EXT
     ELSE IF d.mTexture = GL_TEXTURE_2D THEN TEXTURE_2D
     ELSE TEXTURE_OFF)
    + (IF d.mPlaneAlpha < AlphaOne THEN PLANE_ALPHA_LT_ONE ELSE PLANE_ALPHA_EQ_ONE)
    + (IF d.mPremultipliedAlpha THEN BLEND_PREMULT ELSE BLEND_NORMAL)
    + (IF d.mOpaque THEN OPACITY_OPAQUE ELSE OPACITY_TRANSLUCENT)
    + (IF d.mColorMatrixEnabled THEN COLOR_MATRIX_ON ELSE COLOR_MATRIX_OFF)
    + (IF d.mIsWideGamut THEN WIDE_GAMUT_ON ELSE WIDE_GAMUT_OFF)
    + (IF d.blurnum > 0 THEN BLUR_ON ELSE BLUR_OFF)
    + (IF d.mFirstApp THEN FIRSTAPP_TRUE ELSE FIRSTAPP_FALSE)

\* a computeKey whose texture chain ends in TEXTURE_2D
computeKey_TargetFallsTo2D(d) ==
    (IF ~d.mTextureEnabled THEN TEXTURE_OFF
     ELSE IF d.mTexture = GL_TEXTURE_EXTERNAL_OES THEN TEXTURE_EXT
     ELSE TEXTURE_2D)
    + (IF d.mPlaneAlpha < AlphaOne THEN PLANE_ALPHA_LT_ONE ELSE PLANE_ALPHA_EQ_ONE)
    + (IF d.mPremultipliedAlpha THEN BLEND_PREMULT ELSE BLEND_NORMAL)
    + (IF d.mOpaque THEN OPACITY_OPAQUE ELSE OPACITY_TRANSLUCENT)
    + (IF d.mColorMatrixEnabled THEN COLOR_MATRIX_ON ELSE COLOR_MATRIX_OFF)
    + (IF d.mIsWideGamut THEN WIDE_GAMUT_ON ELSE WIDE_GAMUT_OFF)
    + (IF d.mBlur THEN BLUR_ON ELSE BLUR_OFF)
    + (IF d.mFirstApp THEN FIRSTAPP_TRUE ELSE FIRSTAPP_FALSE)

\* ------------------------------------------------ ProgramCache::computeKey
computeKey(d) ==
    LET k1 == KeySet(EmptyKey, TEXTURE_MASK,
                     IF ~d.mTextureEnabled THEN TEXTURE_OFF
                     ELSE IF d.mTexture = GL_TEXTURE_EXTERNAL_OES THEN TEXTURE_EXT
                     ELSE IF d.mTexture = GL_TEXTURE_2D THEN TEXTURE_2D
                     ELSE TEXTURE_OFF)
        k2 == KeySet(k1, PLANE_ALPHA_MASK,
                     IF d.mPlaneAlpha < AlphaOne THEN PLANE_ALPHA_LT_ONE
                     ELSE PLANE_ALPHA_EQ_ONE)
        k3 == KeySet(k2, BLEND_MASK,
                     IF d.mPremultipliedAlpha THEN BLEND_PREMULT ELSE BLEND_NORMAL)
        k4 == KeySet(k3, OPACITY_MASK,
                     IF d.mOpaque THEN OPACITY_OPAQUE ELSE OPACITY_TRANSLUCENT)
        k5 == KeySet(k4, COLOR_MATRIX_MASK,
                     IF d.mColorMatrixEnabled THEN COLOR_MATRIX_ON ELSE COLOR_MATRIX_OFF)
        k6 == KeySet(k5, WIDE_GAMUT_MASK,
                     IF d.mIsWideGamut THEN WIDE_GAMUT_ON ELSE WIDE_GAMUT_OFF)
        k7 == KeySet(k6, BLUR_MASK, IF d.mBlur THEN BLUR_ON ELSE BLUR_OFF)
    IN  KeySet(k7, FIRSTAPP_MASK,
               IF d.mFirstApp THEN FIRSTAPP_TRUE ELSE FIRSTAPP_FALSE)

\* --------------------------------------------------------------- Formatter
\* A Formatter is its text, one entry per operator<< call (the call's
\* indentation and its argument; the call appends "\n"), and mIndent.
NewFormatter == [mString |-> <<>>, mIndent |-> 0]

Emit(f, in) ==
    [f EXCEPT !.mString = Append(@, [indent |-> f.mIndent, text |-> in])]

\* Several operator<< calls in a row, one per element of ins.
EmitAll(f, ins) ==
    [f EXCEPT !.mString =
        @ \o [i \in DOMAIN ins |-> [indent |-> f.mIndent, text |-> ins[i]]]]

EmitIf(cond, f, ins) == IF cond THEN EmitAll(f, ins) ELSE f

indent(f) == [f EXCEPT !.mIndent = @ + 1]
dedent(f) == [f EXCEPT !.mIndent = @ - 1]
getString(f) == f.mString

\* ------------------------------------------ ProgramCache::generateVertexShader
generateVertexShader(k) ==
    LET v0 == EmitIf(isTexturing(k), NewFormatter,
                     <<"attribute vec4 texCoords;",
                       "varying vec2 outTexCoords;">>)
        v1 == EmitAll(v0, <<"attribute vec4 position;",
                            "uniform mat4 projection;",
                            "uniform mat4 texture;",
                            "void main(void) {">>)
        v2 == Emit(indent(v1), "gl_Position = projection * position;")
        v3 == EmitIf(isTexturing(k), v2,
                     <<"outTexCoords = (texture * texCoords).st;">>)
    IN  getString(Emit(dedent(v3), "}"))

\* ---------------------------------------- ProgramCache::generateFragmentShader
\* The two raw-string helper blocks, each one operator<< argument; the
\* function bodies are elided.
SRGB_HELPERS ==
    "float OETF_sRGB(const float linear) vec3 OETF_sRGB(const vec3 linear) vec3 OETF_scRGB(const vec3 linear) float EOTF_sRGB(float srgb) vec3 EOTF_sRGB(const vec3 srgb) vec3 EOTF_scRGB(const vec3 srgb)"
IDENTITY_HELPERS ==
    "vec3 OETF_scRGB(const vec3 linear) { return linear; } vec3 EOTF_scRGB(const vec3 srgb) { return srgb; }"
EXT_DECLARATION == "#extension GL_OES_EGL_image_external : require"

BlurBody ==
    <<"vec2 resolution = vec2(1.0f / float(rWidth), 1.0f / float(rHeight));",
      "vec2 pixelSize = resolution * 4.0f;",
      "vec2 halfPixelSize = pixelSize / 2.0f;",
      "vec2 dUV = (pixelSize.xy * vec2(iterator, iterator)) + halfPixelSize.xy;",
      "vec3 cOut, cOut0, cOut1, cOut2, cOut3, cOut4;",
      "float x1, y1, x2, y2;",
      "float set = 0.45f;",
      "x1 = outTexCoords.x - dUV.x;",
      "x2 = outTexCoords.x + dUV.x;",
      "y1 = outTexCoords.y - dUV.y;",
      "y2 = outTexCoords.y + dUV.y;",
      "if(x1 < sx) x1 = outTexCoords.x;",
      "if(x2 > bx) x2 = outTexCoords.x;",
      "if(y1 < sy) y1 = outTexCoords.y;",
      "if(y2 > by) y2 = outTexCoords.y;",
      "cOut = texture2D(sampler, outTexCoords).xyz;",
      "cOut1 = texture2D(sampler, vec2(x1, y1)).xyz;",
      "cOut2 = texture2D(sampler, vec2(x1, y2)).xyz;",
      "cOut3 = texture2D(sampler, vec2(x2, y1)).xyz;",
      "cOut4 = texture2D(sampler, vec2(x2, y2)).xyz;",
      "cOut  = cOut + cOut1 + cOut2 + cOut3 + cOut4;",
      "cOut *= 0.2f;",
      "const vec3 W = vec3(0.2125, 0.7154, 0.0721);",
      "vec3 intensity = vec3(dot(cOut.rgb, W));",
      "cOut.rgb = mix(intensity, cOut.rgb, saturation);",
      "gl_FragColor = vec4(cOut.xyz, 1.0f);">>

\* lines 162-164: the extension declaration
FsExtension(k, f) ==
    EmitIf(getTextureTarget(k) = TEXTURE_EXT, f, <<EXT_DECLARATION>>)

\* lines 169-177: the sampler or the flat colour
FsSampler(k, f) ==
    IF getTextureTarget(k) = TEXTURE_EXT
    THEN EmitAll(f, <<"uniform samplerExternalOES sampler;",
                      "varying vec2 outTexCoords;">>)
    ELSE IF getTextureTarget(k) = TEXTURE_2D
    THEN EmitAll(f, <<"uniform sampler2D sampler;",
                      "varying vec2 outTexCoords;">>)
    ELSE IF getTextureTarget(k) = TEXTURE_OFF
    THEN Emit(f, "uniform vec4 color;")
    ELSE f

\* helpers emitted whether or not the key has a colour matrix
FsHelpers_Unconditional(k, f) ==
    IF isWideGamut(k) THEN Emit(f, SRGB_HELPERS) ELSE Emit(f, IDENTITY_HELPERS)

\* lines 184-227: the transfer-function helpers
FsHelpers(k, f) ==
    IF hasColorMatrix(k)
    THEN IF isWideGamut(k) THEN Emit(f, SRGB_HELPERS)
                           ELSE Emit(f, IDENTITY_HELPERS)
    ELSE f

\* lines 228-237: the size and blur uniforms
FsBlurUniforms(k, f) ==
    EmitIf(isBlur(k),
           EmitAll(f, <<"uniform int rWidth;", "uniform int rHeight;">>),
           <<"uniform float iterator;", "uniform float saturation;",
             "uniform float sx;", "uniform float bx;",
             "uniform float sy;", "uniform float by;">>)

\* a plane alpha that scales all channels of a non-premultiplied colour
FsPlaneAlpha_Swapped(k, f) ==
    IF hasPlaneAlpha(k)
    THEN IF isPremultiplied(k) THEN Emit(f, "gl_FragColor.a *= alphaPlane;")
                               ELSE Emit(f, "gl_FragColor *= alphaPlane;")
    ELSE f

\* lines 275-283: the plane alpha
FsPlaneAlpha(k, f) ==
    IF hasPlaneAlpha(k)
    THEN IF isPremultiplied(k) THEN Emit(f, "gl_FragColor *= alphaPlane;")
                               ELSE Emit(f, "gl_FragColor.a *= alphaPlane;")
    ELSE f

\* a colour matrix whose bracketing looks at the blend mode only
FsColorMatrix_BlendOnly(k, f) ==
    IF hasColorMatrix(k)
    THEN LET unpre == isPremultiplied(k)
             c0 == EmitIf(unpre, f,
                     <<"gl_FragColor.rgb = gl_FragColor.rgb / (gl_FragColor.a + 0.0019);">>)
             c1 == EmitAll(c0,
                     <<"vec4 transformed = colorMatrix * vec4(EOTF_scRGB(gl_FragColor.rgb), 1);",
                       "gl_FragColor.rgb = OETF_scRGB(transformed.rgb);">>)
         IN  EmitIf(unpre, c1,
                     <<"gl_FragColor.rgb = gl_FragColor.rgb * (gl_FragColor.a + 0.0019);">>)
    ELSE f

\* lines 285-298: the colour matrix
FsColorMatrix(k, f) ==
    IF hasColorMatrix(k)
    THEN LET unpre == ~isOpaque(k) /\ isPremultiplied(k)
             c0 == EmitIf(unpre, f,
                     <<"gl_FragColor.rgb = gl_FragColor.rgb / (gl_FragColor.a + 0.0019);">>)
             c1 == EmitAll(c0,
                     <<"vec4 transformed = colorMatrix * vec4(EOTF_scRGB(gl_FragColor.rgb), 1);",
                       "gl_FragColor.rgb = OETF_scRGB(transformed.rgb);">>)
         IN  EmitIf(unpre, c1,
                     <<"gl_FragColor.rgb = gl_FragColor.rgb * (gl_FragColor.a + 0.0019);">>)
    ELSE f

generateFragmentShader(k) ==
    LET f0 == FsExtension(k, NewFormatter)
        f1 == Emit(f0, "precision mediump float;")
        f2 == FsSampler(k, f1)
        f3 == EmitIf(hasPlaneAlpha(k), f2, <<"uniform float alphaPlane;">>)
        f4 == EmitIf(hasColorMatrix(k), f3, <<"uniform mat4 colorMatrix;">>)
        f5 == FsHelpers(k, f4)
        f6 == FsBlurUniforms(k, f5)
        f7 == indent(Emit(f6, "void main(void) {"))
        f8 == IF isTexturing(k)
              THEN Emit(f7, "gl_FragColor = texture2D(sampler, outTexCoords);")
              ELSE Emit(f7, "gl_FragColor = color;")
        f9 == EmitIf(isBlur(k), f8, BlurBody)
        f10 == EmitIf(isOpaque(k), f9, <<"gl_FragColor.a = 1.0;">>)
        f11 == FsPlaneAlpha(k, f10)
        f12 == FsColorMatrix(k, f11)
    IN  getString(Emit(dedent(f12), "}"))

\* ProgramCache::generateProgram, up to the Program constructor
generateProgram(k) ==
    [needs |-> k, vs |-> generateVertexShader(k), fs |-> generateFragmentShader(k)]

\* ------------------------------------------------- Program (Program.h)

\* The uniform a line of shader text declares ("" when it declares none).
UniformName(text) ==
    CASE text = "uniform mat4 projection;"            -> "projection"
      [] text = "uniform mat4 texture;"               -> "texture"
      [] text = "uniform samplerExternalOES sampler;" -> "sampler"
      [] text = "uniform sampler2D sampler;"          -> "sampler"
      [] text = "uniform vec4 color;"                 -> "color"
      [] text = "uniform float alphaPlane;"           -> "alphaPlane"
      [] text = "uniform mat4 colorMatrix;"           -> "colorMatrix"
      [] text = "uniform int rWidth;"                 -> "rWidth"
      [] text = "uniform int rHeight;"                -> "rHeight"
      [] text = "uniform float iterator;"             -> "iterator"
      [] text = "uniform float saturation;"           -> "saturation"
      [] text = "uniform float sx;"                   -> "sx"
      [] text = "uniform float bx;"                   -> "bx"
      [] text = "uniform float sy;"                   -> "sy"
      [] text = "uniform float by;"                   -> "by"
      [] OTHER                                        -> ""

\* The names a line of a fragment text declares: a uniform, the
\* varying, or the two transfer functions the colour matrix statements call.
FsDeclares(text) ==
    CASE text = "varying vec2 outTexCoords;" -> {"outTexCoords"}
      [] text = SRGB_HELPERS                 -> {"OETF_scRGB", "EOTF_scRGB"}
      [] text = IDENTITY_HELPERS             -> {"OETF_scRGB", "EOTF_scRGB"}
      [] OTHER                               -> {UniformName(text)} \ {""}

\* The names a statement of main() in a fragment text uses.
FsUses(text) ==
    CASE text = "gl_FragColor = texture2D(sampler, outTexCoords);" -> {"sampler", "outTexCoords"}
      [] text = "gl_FragColor = color;"                            -> {"color"}
      [] text = "vec2 resolution = vec2(1.0f / float(rWidth), 1.0f / float(rHeight));"
                                                                   -> {"rWidth", "rHeight"}
      [] text = "vec2 dUV = (pixelSize.xy * vec2(iterator, iterator)) + halfPixelSize.xy;"
                                                                   -> {"iterator"}
      [] text \in {"x1 = outTexCoords.x - dUV.x;", "x2 = outTexCoords.x + dUV.x;",
                   "y1 = outTexCoords.y - dUV.y;", "y2 = outTexCoords.y + dUV.y;"}
                                                                   -> {"outTexCoords"}
      [] text = "if(x1 < sx) x1 = outTexCoords.x;"                 -> {"sx", "outTexCoords"}
      [] text = "if(x2 > bx) x2 = outTexCoords.x;"                 -> {"bx", "outTexCoords"}
      [] text = "if(y1 < sy) y1 = outTexCoords.y;"                 -> {"sy", "outTexCoords"}
      [] text = "if(y2 > by) y2 = outTexCoords.y;"                 -> {"by", "outTexCoords"}
      [] text = "cOut = texture2D(sampler, outTexCoords).xyz;"     -> {"sampler", "outTexCoords"}
      [] text \in {"cOut1 = texture2D(sampler, vec2(x1, y1)).xyz;",
                   "cOut2 = texture2D(sampler, vec2(x1, y2)).xyz;",
                   "cOut3 = texture2D(sampler, vec2(x2, y1)).xyz;",
                   "cOut4 = texture2D(sampler, vec2(x2, y2)).xyz;"} -> {"sampler"}
      [] text = "cOut.rgb = mix(intensity, cOut.rgb, saturation);" -> {"saturation"}
      [] text \in {"gl_FragColor *= alphaPlane;", "gl_FragColor.a *= alphaPlane;"}
                                                                   -> {"alphaPlane"}
      [] text = "vec4 transformed = colorMatrix * vec4(EOTF_scRGB(gl_FragColor.rgb), 1);"
                                                                   -> {"colorMatrix", "EOTF_scRGB"}
      [] text = "gl_FragColor.rgb = OETF_scRGB(transformed.rgb);"  -> {"OETF_scRGB"}
      [] OTHER                                                     -> {}

\* The uniforms the shader texts of a program declare.
DeclaredUniforms(src) ==
    ({ UniformName(src.vs[i].text) : i \in DOMAIN src.vs }
       \cup { UniformName(src.fs[i].text) : i \in DOMAIN src.fs }) \ {""}

\* Program::Program(needs, vertex, fragment): the object, linked or not; a
\* linked program has a location for each uniform its texts declare.
NewProgram(src, linked) ==
    [needs |-> src.needs, valid |-> linked,
     locations |-> IF linked THEN DeclaredUniforms(src) ELSE {}]

\* Program::isValid()
isValid(progs, p) == progs[p].valid

\* Program::getUniform(name): glGetUniformLocation on the program object; no
\* location (program 0) when the link failed or the text declares no such uniform.
getUniform(progs, p, name) ==
    IF progs[p].valid /\ name \in progs[p].locations
    THEN [program |-> p, name |-> name]
    ELSE [program |-> 0, name |-> name]

\* The uniforms whose value the model keeps per program: those a useProgram
\* on a linked BLUR program may leave unwritten.  Every other uniform
\* useProgram writes is rewritten by each call; its write is in glCalls.
KeptUniforms == {"iterator", "saturation"}
FreshUniforms == [n \in KeptUniforms |-> 0]

\* One GL call: which entry point, the program active when it ran, the
\* location (program and name) and the value.
GlCall(call, on, loc, value) ==
    [call |-> call, on |-> on, of |-> loc.program, name |-> loc.name, value |-> value]

\* glUniform1i / glUniform1f: writes the active program's uniform at loc; a
\* call without location, or with the location of another program, writes nothing.
glUniform(u, on, loc, value) ==
    IF loc.program # 0 /\ loc.program = on /\ loc.name \in KeptUniforms
    THEN [u EXCEPT ![on][loc.name] = value]
    ELSE u

\* The calls of cs applied in order to the uniform store u.
RECURSIVE ApplyCalls(_, _)
ApplyCalls(u, cs) ==
    IF cs = <<>> THEN u
    ELSE ApplyCalls(IF Head(cs).call \in {"glUniform1i", "glUniform1f"}
                    THEN glUniform(u, Head(cs).on,
                                   [program |-> Head(cs).of, name |-> Head(cs).name],
                                   Head(cs).value)
                    ELSE u,
                    Tail(cs))

\* -------------------------------------------- DefaultKeyedVector<Key, Program*>
valueFor(cache, k) == IF k \in DOMAIN cache THEN cache[k] ELSE NULL
add(cache, k, p) == [x \in DOMAIN cache \cup {k} |-> IF x = k THEN p ELSE cache[x]]

InvalidCount(progs) == Cardinality({i \in DOMAIN progs : ~progs[i].valid})

RECURSIVE SubsetsUpTo(_, _)
SubsetsUpTo(S, n) ==
    IF n <= 0 THEN {{}}
    ELSE LET P == SubsetsUpTo(S, n - 1) IN P \cup {T \cup {x} : T \in P, x \in S}

\* ------------------------------------------------ ProgramCache::primeCache
\* a priming mask that takes in COLOR_MATRIX
PrimeMask_Wide ==
    BitOr(BitOr(BitOr(BLEND_MASK, OPACITY_MASK), BitOr(PLANE_ALPHA_MASK, TEXTURE_MASK)),
          COLOR_MATRIX_MASK)

PrimeMask ==
    BitOr(BitOr(BLEND_MASK, OPACITY_MASK), BitOr(PLANE_ALPHA_MASK, TEXTURE_MASK))

\* a loop that skips no texture pattern
RECURSIVE PrimeLoop_NoSkip(_, _, _, _)
PrimeLoop_NoSkip(keyVal, cache, progs, failing) ==
    IF keyVal > PrimeMask THEN [mCache |-> cache, programs |-> progs]
    ELSE
      LET shaderKey == KeySet(EmptyKey, PrimeMask, keyVal)
      IN  IF valueFor(cache, shaderKey) = NULL
          THEN LET made == Append(progs, NewProgram(generateProgram(shaderKey),
                                                    shaderKey \notin failing))
               IN  PrimeLoop_NoSkip(keyVal + 1, add(cache, shaderKey, Len(made)),
                                    made, failing)
          ELSE PrimeLoop_NoSkip(keyVal + 1, cache, progs, failing)

\* The loop from keyVal on; failing holds the keys whose program fails to link.
RECURSIVE PrimeLoop(_, _, _, _)
PrimeLoop(keyVal, cache, progs, failing) ==
    IF keyVal > PrimeMask THEN [mCache |-> cache, programs |-> progs]
    ELSE
      LET shaderKey == KeySet(EmptyKey, PrimeMask, keyVal)
          tex == getTextureTarget(shaderKey)
      IN  IF tex # TEXTURE_OFF /\ tex # TEXTURE_EXT /\ tex # TEXTURE_2D
          THEN PrimeLoop(keyVal + 1, cache, progs, failing)
          ELSE IF valueFor(cache, shaderKey) = NULL
          THEN LET made == Append(progs, NewProgram(generateProgram(shaderKey),
                                                    shaderKey \notin failing))
               IN  PrimeLoop(keyVal + 1, add(cache, shaderKey, Len(made)), made, failing)
          ELSE PrimeLoop(keyVal + 1, cache, progs, failing)

\* The keys the loop does not skip, and those of them a primeCache call on
\* cache will generate.
PrimeKeys ==
    { k \in { KeySet(EmptyKey, PrimeMask, keyVal) : keyVal \in 0..PrimeMask } :
        getTextureTarget(k) \in {TEXTURE_OFF, TEXTURE_EXT, TEXTURE_2D} }
PrimeMisses(cache) == PrimeKeys \ DOMAIN cache

\* primeCache on (cache, progs): the loop, which changes nothing when no key
\* it visits is missing.
Primed(cache, progs, failing) ==
    IF PrimeMisses(cache) = {} THEN [mCache |-> cache, programs |-> progs]
    ELSE PrimeLoop(0, cache, progs, failing)

primeCache ==
    /\ \E failing \in SubsetsUpTo(PrimeMisses(mCache), MaxBroken - InvalidCount(programs)) :
         \E r \in {Primed(mCache, programs, failing)} :
             /\ mCache' = r.mCache
             /\ programs' = r.programs
             /\ uniforms' = [i \in DOMAIN r.programs |->
                               IF i \in DOMAIN uniforms THEN uniforms[i] ELSE FreshUniforms]
    /\ glCalls' = <<>>
    /\ program' = NULL
    /\ needs' = EmptyKey
    /\ lastOp' = "primeCache"
    /\ UNCHANGED <<description, current>>

\* ---------------------------------------------- ProgramCache::changeUniform
\* lines 321-327: the two writes, chosen by the parity of blurnum
ParityCalls(progs, on, p, blurnum) ==
    IF blurnum % 2 = 0
    THEN <<GlCall("glUniform1i", on, getUniform(progs, p, "blurnum1"), blurnum),
           GlCall("glUniform1i", on, getUniform(progs, p, "blurnum2"), 0)>>
    ELSE <<GlCall("glUniform1i", on, getUniform(progs, p, "blurnum2"), blurnum),
           GlCall("glUniform1i", on, getUniform(progs, p, "blurnum1"), 0)>>

\* the writes without the isBlur() test
ChangeCalls_Ungated(progs, on, p, k, blurnum) ==
    IF p = NULL THEN <<>> ELSE ParityCalls(progs, on, p, blurnum)

\* lines 318-327: nothing without a cached program or without BLUR
ChangeCalls(progs, on, p, k, blurnum) ==
    IF p = NULL \/ ~isBlur(k) THEN <<>> ELSE ParityCalls(progs, on, p, blurnum)

changeUniform ==
    \E k \in {computeKey(description)} :
      \E p \in {valueFor(mCache, k)} :
        \E calls \in {ChangeCalls(programs, current, p, k, description.blurnum)} :
          /\ needs' = k
          /\ program' = p
          /\ glCalls' = calls
          /\ uniforms' = ApplyCalls(uniforms, calls)
          /\ lastOp' = "changeUniform"
          /\ UNCHANGED <<description, mCache, programs, current>>

\* ------------------------------------------------- ProgramCache::useProgram
\* a tap pair that falls back to the first entry outside 1..7
TapPair_Fallback(blurnum) ==
    IF blurnum = 2 THEN <<1, 1>>
    ELSE IF blurnum = 3 THEN <<2, 1>>
    ELSE IF blurnum = 4 THEN <<3, 1>>
    ELSE IF blurnum = 5 THEN <<4, 1>>
    ELSE IF blurnum = 6 THEN <<4, 1>>
    ELSE IF blurnum = 7 THEN <<5, 2>>
    ELSE <<0, 1>>

\* a tap pair that grows with the blur number
TapPair_Linear(blurnum) ==
    IF blurnum \in 1..7 THEN <<blurnum - 1, IF blurnum = 7 THEN 2 ELSE 1>> ELSE <<>>

\* lines 359-380: the (iterator, saturation) pair of a blur number
TapPair(blurnum) ==
    IF blurnum = 1 THEN <<0, 1>>
    ELSE IF blurnum = 2 THEN <<1, 1>>
    ELSE IF blurnum = 3 THEN <<2, 1>>
    ELSE IF blurnum = 4 THEN <<3, 1>>
    ELSE IF blurnum = 5 THEN <<4, 1>>
    ELSE IF blurnum = 6 THEN <<4, 1>>
    ELSE IF blurnum = 7 THEN <<5, 2>>
    ELSE <<>>

\* lines 354-381: the calls made when needs.isBlur()
BlurCalls(progs, p, d) ==
    <<GlCall("glUniform1f", p, getUniform(progs, p, "sx"), d.sx),
      GlCall("glUniform1f", p, getUniform(progs, p, "bx"), d.bx),
      GlCall("glUniform1f", p, getUniform(progs, p, "sy"), d.sy),
      GlCall("glUniform1f", p, getUniform(progs, p, "by"), d.by)>>
    \o (IF TapPair(d.blurnum) = <<>> THEN <<>>
        ELSE <<GlCall("glUniform1f", p, getUniform(progs, p, "iterator"),
                      TapPair(d.blurnum)[1]),
               GlCall("glUniform1f", p, getUniform(progs, p, "saturation"),
                      TapPair(d.blurnum)[2])>>)

\* the calls with use() after the uniform writes
UseCalls_UseLast(progs, p, k, d) ==
    IF isValid(progs, p)
    THEN <<GlCall("setUniforms", p, [program |-> p, name |-> ""], 0),
           GlCall("glUniform1i", p, getUniform(progs, p, "rHeight"), d.hwHeight),
           GlCall("glUniform1i", p, getUniform(progs, p, "rWidth"), d.hwWidth)>>
         \o (IF isBlur(k) THEN BlurCalls(progs, p, d) ELSE <<>>)
         \o <<GlCall("glUseProgram", p, [program |-> p, name |-> ""], 0)>>
    ELSE <<>>

\* the calls without the isValid() test
UseCalls_Unchecked(progs, p, k, d) ==
    <<GlCall("glUseProgram", p, [program |-> p, name |-> ""], 0),
      GlCall("setUniforms", p, [program |-> p, name |-> ""], 0),
      GlCall("glUniform1i", p, getUniform(progs, p, "rHeight"), d.hwHeight),
      GlCall("glUniform1i", p, getUniform(progs, p, "rWidth"), d.hwWidth)>>
    \o (IF isBlur(k) THEN BlurCalls(progs, p, d) ELSE <<>>)

\* lines 349-382: the calls made with the program found or made
UseCalls(progs, p, k, d) ==
    IF isValid(progs, p)
    THEN <<GlCall("glUseProgram", p, [program |-> p, name |-> ""], 0),
           GlCall("setUniforms", p, [program |-> p, name |-> ""], 0),
           GlCall("glUniform1i", p, getUniform(progs, p, "rHeight"), d.hwHeight),
           GlCall("glUniform1i", p, getUniform(progs, p, "rWidth"), d.hwWidth)>>
         \o (IF isBlur(k) THEN BlurCalls(progs, p, d) ELSE <<>>)
    ELSE <<>>

\* a lookup that generates whether or not the key is cached
Lookup_Regenerates(cache, progs, k, linked) ==
    LET made == Append(progs, NewProgram(generateProgram(k), linked))
    IN  [mCache |-> add(cache, k, Len(made)), programs |-> made,
         program |-> Len(made), generated |-> TRUE]

\* a lookup whose miss makes room by dropping the entries cached so far
Lookup_Evicting(cache, progs, k, linked) ==
    IF valueFor(cache, k) = NULL
    THEN LET made == Append(progs, NewProgram(generateProgram(k), linked))
         IN  [mCache |-> add(<<>>, k, Len(made)), programs |-> made,
              program |-> Len(made), generated |-> TRUE]
    ELSE [mCache |-> cache, programs |-> progs,
          program |-> valueFor(cache, k), generated |-> FALSE]

\* lines 336-346: the program for k, generated and added on a miss
Lookup(cache, progs, k, linked) ==
    IF valueFor(cache, k) = NULL
    THEN LET made == Append(progs, NewProgram(generateProgram(k), linked))
         IN  [mCache |-> add(cache, k, Len(made)), programs |-> made,
              program |-> Len(made), generated |-> TRUE]
    ELSE [mCache |-> cache, programs |-> progs,
          program |-> valueFor(cache, k), generated |-> FALSE]

\* The link of a program generated on a miss succeeds or fails.
useProgram ==
    \E k \in {computeKey(description)} :
      /\ valueFor(mCache, k) = NULL => Len(programs) < Cardinality(PrimeKeys) + MaxLazy
      /\ \E linked \in IF valueFor(mCache, k) # NULL THEN {TRUE}
                    ELSE IF InvalidCount(programs) < MaxBroken THEN BOOLEAN
                    ELSE {TRUE} :
        \E r \in {Lookup(mCache, programs, k, linked)} :
          \E calls \in {UseCalls(r.programs, r.program, k, description)} :
            /\ needs' = k
            /\ mCache' = r.mCache
            /\ programs' = r.programs
            /\ program' = r.program
            /\ current' = IF isValid(r.programs, r.program) THEN r.program ELSE current
            /\ glCalls' = calls
            /\ uniforms' = ApplyCalls([i \in DOMAIN r.programs |->
                                         IF i \in DOMAIN uniforms THEN uniforms[i]
                                         ELSE FreshUniforms],
                                      calls)
            /\ lastOp' = "useProgram"
            /\ UNCHANGED description

\* ---------------------------------------------------------- specifications
\* a constructor that does not prime
Constructed_Cache_Unprimed(failing) == [mCache |-> <<>>, programs |-> <<>>]

\* ProgramCache::ProgramCache(): primeCache() on the empty cache.
Constructed_Cache(failing) == Primed(<<>>, <<>>, failing)

\* How many fields of key k are off computeKey(Baseline).
KeyEdits(k) ==
      Off(getTextureTarget(k) # TEXTURE_OFF) + Off(hasPlaneAlpha(k))
    + Off(isPremultiplied(k)) + Off(~isOpaque(k)) + Off(hasColorMatrix(k))
    + Off(isWideGamut(k)) + Off(isBlur(k)) + Off(isFirstApp(k))

\* The state once ProgramCache() has returned r and the caller holds d.
InitState(d, r) ==
    /\ description = d
    /\ mCache = r.mCache
    /\ programs = r.programs
    /\ uniforms = [i \in DOMAIN r.programs |-> FreshUniforms]
    /\ needs = EmptyKey
    /\ current = 0
    /\ glCalls = <<>>
    /\ program = NULL
    /\ lastOp = "ProgramCache"

\* The link failures of priming, among the primed keys a caller within the
\* edit bound can request.
PrimeFailures ==
    SubsetsUpTo({k \in PrimeMisses(<<>>) : KeyEdits(k) <= MaxShapeEdits}, MaxBroken)

\* The cache and one Description whose owner moves its shape fields, within
\* the edit bound, between the calls; the scalar fields stay at the baseline.
Init ==
    \E failing \in PrimeFailures :
      \E r \in {Constructed_Cache(failing)} :
        \E d \in NewDescriptions :
          /\ ShapeEdits(d) <= MaxShapeEdits /\ ScalarEdits(d) = 0
          /\ InitState(d, r)

Next ==
    \/ ShapeSetters /\ ShapeEdits(description') <= MaxShapeEdits
    \/ primeCache
    \/ useProgram
    \/ changeUniform

Spec == Init /\ [][Next]_vars

\* Every description the setters reach with the scalar fields at the baseline.
AllShapes ==
    { [Baseline EXCEPT !.mTextureEnabled = te, !.mTexture = t, !.mPlaneAlpha = a,
                       !.mPremultipliedAlpha = pm, !.mOpaque = op,
                       !.mColorMatrix = m, !.mColorMatrixEnabled = (m # Identity),
                       !.mIsWideGamut = wg, !.mBlur = bl, !.mFirstApp = fa] :
        te \in BOOLEAN, t \in TextureTargets, a \in PlaneAlphas, pm \in BOOLEAN,
        op \in BOOLEAN, m \in Matrices, wg \in BOOLEAN, bl \in BOOLEAN,
        fa \in BOOLEAN }

\* d with the fields useProgram and changeUniform write to uniforms moved,
\* within the scalar edit bound.
UniformVariants(d) ==
    { v \in { [d EXCEPT !.blurnum = n, !.hwWidth = w, !.hwHeight = h,
                        !.sx = win[1], !.bx = win[2], !.sy = win[3], !.by = win[4]] :
                n \in BlurNums, w \in Dims, h \in Dims,
                win \in Wins \X Wins \X Wins \X Wins } :
        ScalarEdits(v) <= MaxScalarEdits }

\* The shader generators over every key computeKey produces: one description
\* of any shape per behaviour, and the cache operations on it.
InitShader ==
    \E r \in {Constructed_Cache({})} : \E d \in AllShapes : InitState(d, r)
NextShader == primeCache \/ useProgram \/ changeUniform
SpecShader == InitShader /\ [][NextShader]_vars

\* computeKey over the whole Description: every setter, the shape fields
\* within twice the shape edit bound and the scalar fields within the scalar
\* edit bound; changeUniform computes the key.
InitKey ==
    \E r \in {Constructed_Cache({})} :
      \E d \in NewDescriptions :
        /\ ShapeEdits(d) <= 2 * MaxShapeEdits /\ ScalarEdits(d) <= MaxScalarEdits
        /\ InitState(d, r)
NextKey ==
    \/ ShapeSetters /\ ShapeEdits(description') <= 2 * MaxShapeEdits
    \/ ScalarSetters /\ ScalarEdits(description') <= MaxScalarEdits
    \/ changeUniform
SpecKey == InitKey /\ [][NextKey]_vars

\* The uniform writes: a description of a shape within the edit bound (mBlur
\* aside) whose owner moves mBlur and, within their bound, the fields written
\* to uniforms.  The link failure of priming, if any, is that of the primed
\* program this description requests.
UniformSetters ==
    \/ \E n \in BlurNums : setBlurNum(n)
    \/ \E w \in Dims, h \in Dims : setSize(w, h)
    \/ \E f \in {"sx", "bx", "sy", "by"}, v \in Wins : setWindow(f, v)

InitBlur ==
    \E s \in { a \in AllShapes : ShapeEdits([a EXCEPT !.mBlur = FALSE]) <= MaxShapeEdits } :
      \E failing \in SubsetsUpTo({computeKey([s EXCEPT !.mBlur = FALSE])} \cap PrimeKeys,
                                 MaxBroken) :
        \E r \in {Constructed_Cache(failing)} :
          \E d \in UniformVariants(s) : InitState(d, r)
NextBlur ==
    \/ \E b \in BOOLEAN : setBlur(b)
    \/ UniformSetters /\ ScalarEdits(description') <= MaxScalarEdits
    \/ useProgram
    \/ changeUniform
SpecBlur == InitBlur /\ [][NextBlur]_vars

\* ------------------------------------------------------------------ claims
\* C1: over any sequence of primeCache, useProgram and changeUniform calls,
\* generateProgram has run at most once per Key (no two Program objects were
\* generated for one Key), and a useProgram whose description maps to a cached
\* Key generates nothing and obtains the very Program stored for that Key.
C1_GenerateOncePerKey ==
    [][ /\ Cardinality({ programs'[i].needs : i \in DOMAIN programs' }) = Len(programs')
        /\ \A k \in DOMAIN mCache' : programs'[mCache'[k]].needs = k
        /\ (lastOp' = "useProgram" /\ needs' \in DOMAIN mCache)
             => /\ programs' = programs
                /\ program' = mCache[needs']
                /\ mCache'[needs'] = mCache[needs'] ]_vars

\* A useProgram that returned a lazily generated program which is not the
\* latest one generated: the request hit the cache.
C1_Witness ==
    /\ lastOp = "useProgram"
    /\ program > Cardinality(PrimeKeys)
    /\ program < Len(programs)
    /\ mCache[needs] = program

\* The combinations TEXTURE in {OFF, EXT, 2D} x OPACITY x PLANE_ALPHA x BLEND.
PrimedCombinations ==
    { t + o + a + b : t \in {TEXTURE_OFF, TEXTURE_EXT, TEXTURE_2D},
                      o \in {OPACITY_OPAQUE, OPACITY_TRANSLUCENT},
                      a \in {PLANE_ALPHA_LT_ONE, PLANE_ALPHA_EQ_ONE},
                      b \in {BLEND_PREMULT, BLEND_NORMAL} }

\* A key with COLOR_MATRIX, WIDE_GAMUT or BLUR set.
IsLazyKey(k) == hasColorMatrix(k) \/ isWideGamut(k) \/ isBlur(k)

\* C2: once primeCache has run (the constructor runs it) every combination of
\* TEXTURE in {OFF, EXT, 2D} x OPACITY x PLANE_ALPHA x BLEND is cached, no Key
\* with COLOR_MATRIX, WIDE_GAMUT or BLUR is cached by the constructor, and
\* such a Key enters the cache only in a useProgram whose description maps to it.
C2_PrimingCoverage ==
    [][ /\ PrimedCombinations \subseteq DOMAIN mCache
        /\ PrimedCombinations \subseteq DOMAIN mCache'
        /\ lastOp = "ProgramCache" => \A k \in DOMAIN mCache : ~IsLazyKey(k)
        /\ \A k \in DOMAIN mCache' \ DOMAIN mCache :
             IsLazyKey(k) => (lastOp' = "useProgram" /\ needs' = k) ]_vars

\* A BLUR key just requested for the first time, the only lazy key cached.
C2_Witness ==
    /\ lastOp = "useProgram"
    /\ isBlur(needs)
    /\ DOMAIN mCache = PrimedCombinations \cup {needs}
    /\ program = Len(programs)

\* The description of C3: texturing off, opaque, not premultiplied, plane
\* alpha 1.0, identity colour matrix, blur off.
DefaultDescription(d) ==
    /\ ~d.mTextureEnabled /\ d.mOpaque /\ ~d.mPremultipliedAlpha
    /\ d.mPlaneAlpha = AlphaOne
    /\ d.mColorMatrix = Identity /\ ~d.mColorMatrixEnabled
    /\ ~d.mBlur

\* C3 as stated: the first useProgram on a fresh cache with the default
\* description generates exactly one program, a second one generates none.
C3_Original ==
    [][ (DefaultDescription(description) /\ lastOp' = "useProgram")
          => /\ lastOp = "ProgramCache" => Len(programs') = Len(programs) + 1
             /\ lastOp = "useProgram" => programs' = programs ]_vars

\* C3: on a fresh cache the first useProgram with the default description
\* generates no program when wide gamut and first-app are off (the constructor
\* primed that Key) and exactly one when either is on; a second useProgram
\* with an equal description generates none.
C3_FirstUseIsPrimed ==
    [][ (DefaultDescription(description) /\ lastOp' = "useProgram")
          => /\ lastOp = "ProgramCache"
                  => Len(programs') = Len(programs) +
                       (IF description.mIsWideGamut \/ description.mFirstApp
                        THEN 1 ELSE 0)
             /\ lastOp = "ProgramCache" => \A i \in DOMAIN programs : programs'[i] = programs[i]
             /\ lastOp = "useProgram" => programs' = programs ]_vars

\* useProgram with the default description, wide gamut and first-app off, on
\* a cache that has generated nothing since its constructor.
C3_Witness ==
    /\ lastOp = "useProgram"
    /\ DefaultDescription(description)
    /\ ~description.mIsWideGamut /\ ~description.mFirstApp
    /\ Len(programs) = Cardinality(PrimeKeys)
    /\ program = mCache[OPACITY_OPAQUE]

\* C4: a useProgram whose description maps to a Key cached with a Program
\* whose link failed activates no program, writes no uniform, generates no
\* program and leaves the entry of that Key as it was.
C4_InvalidIsTerminal ==
    [][ (lastOp' = "useProgram" /\ needs' \in DOMAIN mCache
           /\ ~isValid(programs, mCache[needs']))
          => /\ glCalls' = <<>>
             /\ current' = current
             /\ uniforms' = uniforms
             /\ programs' = programs
             /\ mCache' = mCache
             /\ program' = mCache[needs'] ]_vars

\* A useProgram that found an invalid program generated before the latest one.
C4_Witness ==
    /\ lastOp = "useProgram"
    /\ program # NULL
    /\ ~isValid(programs, program)
    /\ program < Len(programs)
    /\ glCalls = <<>>

\* C5: no step removes or replaces a cache entry: a Key present before a step
\* is present after it, mapped to the same Program object.
C5_GrowOnly ==
    [][ \A k \in DOMAIN mCache :
          /\ k \in DOMAIN mCache'
          /\ mCache'[k] = mCache[k]
          /\ programs'[mCache[k]] = programs[mCache[k]] ]_vars

\* A cache that has grown twice since priming, after a changeUniform.
C5_Witness ==
    /\ lastOp = "changeUniform"
    /\ Cardinality(DOMAIN mCache) >= Cardinality(PrimeKeys) + 2
    /\ \A k \in PrimeKeys : k \in DOMAIN mCache /\ mCache[k] <= Cardinality(PrimeKeys)

\* The shape fields of a Description: the flags and the texture target.
SameShape(a, b) ==
    /\ a.mTextureEnabled = b.mTextureEnabled
    /\ a.mTexture = b.mTexture
    /\ a.mPremultipliedAlpha = b.mPremultipliedAlpha
    /\ a.mOpaque = b.mOpaque
    /\ a.mColorMatrixEnabled = b.mColorMatrixEnabled
    /\ a.mIsWideGamut = b.mIsWideGamut
    /\ a.mBlur = b.mBlur
    /\ a.mFirstApp = b.mFirstApp

\* C6 as stated: two descriptions that agree on every shape field and differ
\* only in scalars (plane-alpha magnitude, blur tap index, window, size,
\* colour, matrix entries) have equal Keys.  The two descriptions are those
\* before and after one setter call.
C6_Original ==
    [][ SameShape(description, description')
          => computeKey(description') = computeKey(description) ]_vars

\* C6: two descriptions that agree on every shape field and on whether the
\* plane alpha is below 1.0, and differ only in scalars, have equal Keys.
\* Equality being transitive, the descriptions before and after one setter
\* call stand for any two descriptions a chain of such calls relates.
C6_ScalarsLeaveKey ==
    [][ ( /\ SameShape(description, description')
          /\ (description.mPlaneAlpha < AlphaOne) = (description'.mPlaneAlpha < AlphaOne) )
          => computeKey(description') = computeKey(description) ]_vars

\* changeUniform computed the Key of a description with a scalar off the
\* baseline and a plane alpha below 1.0; a description of another plane
\* alpha below 1.0 and the baseline scalars has the same Key.
C6_Witness ==
    /\ lastOp = "changeUniform"
    /\ ScalarEdits(description) > 0
    /\ description.mPlaneAlpha = 0
    /\ hasPlaneAlpha(needs)
    /\ needs = computeKey([description EXCEPT !.mPlaneAlpha = 1, !.mColor = 0,
                              !.mProjectionMatrix = Identity, !.blurnum = 0,
                              !.hwWidth = 1, !.hwHeight = 1,
                              !.sx = 0, !.bx = 0, !.sy = 0, !.by = 0])

\* The table of C7: (iterator, saturation) per blur tap index 1..7.
BlurTable ==
    << <<0, 1>>, <<1, 1>>, <<2, 1>>, <<3, 1>>, <<4, 1>>, <<4, 1>>, <<5, 2>> >>

\* The values glCalls writes to the uniform name of program p.
Written(p, name) ==
    { glCalls[i].value : i \in { j \in DOMAIN glCalls :
                                   /\ glCalls[j].call = "glUniform1f"
                                   /\ glCalls[j].of = p
                                   /\ glCalls[j].name = name } }

\* C7: a useProgram with a valid program, BLUR on and blurnum in 1..7 writes
\* iterator and saturation of that program, once each, with the pair of the
\* table 1->(0,1.0) 2->(1,1.0) 3->(2,1.0) 4->(3,1.0) 5->(4,1.0) 6->(4,1.0)
\* 7->(5,2.0), and the program's uniforms hold that pair afterwards.
C7_TapTable ==
    ( /\ lastOp = "useProgram"
      /\ program # NULL
      /\ isValid(programs, program)
      /\ isBlur(needs)
      /\ description.blurnum \in 1..7 )
    => /\ Written(program, "iterator") = {BlurTable[description.blurnum][1]}
       /\ Written(program, "saturation") = {BlurTable[description.blurnum][2]}
       /\ uniforms[program].iterator = BlurTable[description.blurnum][1]
       /\ uniforms[program].saturation = BlurTable[description.blurnum][2]

\* useProgram on a linked BLUR program with blurnum 6: iterator 4, saturation 1.0.
C7_Witness ==
    /\ lastOp = "useProgram"
    /\ isBlur(needs)
    /\ program # NULL
    /\ isValid(programs, program)
    /\ current = program
    /\ description.blurnum = 6
    /\ uniforms[program] = [iterator |-> 4, saturation |-> 1]

\* The TEXTURE field C8 states for a description.
StatedTexture(d) ==
    IF ~d.mTextureEnabled THEN TEXTURE_OFF
    ELSE CASE d.mTexture = GL_TEXTURE_EXTERNAL_OES -> TEXTURE_EXT
           [] d.mTexture = GL_TEXTURE_2D           -> TEXTURE_2D
           [] OTHER                                -> TEXTURE_OFF

\* C8: the Key useProgram and changeUniform compute has TEXTURE off with
\* texturing disabled, EXT for the external target, 2D for the 2D target and
\* OFF for any other target; with TEXTURE off, the program useProgram selects
\* is an untextured one (generated for a Key with TEXTURE off, no sampler).
C8_TextureTarget ==
    lastOp \in {"useProgram", "changeUniform"}
      => /\ getTextureTarget(needs) = StatedTexture(description)
         /\ (lastOp = "useProgram" /\ StatedTexture(description) = TEXTURE_OFF)
              => /\ program # NULL
                 /\ ~isTexturing(programs[program].needs)
                 /\ "sampler" \notin programs[program].locations

\* useProgram with texturing enabled on a cube-map target activated a program.
C8_Witness ==
    /\ lastOp = "useProgram"
    /\ description.mTextureEnabled
    /\ description.mTexture = GL_TEXTURE_CUBE_MAP
    /\ program # NULL
    /\ current = program
    /\ "color" \in programs[program].locations

\* C9: a changeUniform call leaves the cached Keys and their Programs as they
\* were, generates no program, and makes no uniform write when the Key is not
\* cached or has BLUR off.
C9_ChangeUniformFrame ==
    [][ lastOp' = "changeUniform"
          => /\ mCache' = mCache
             /\ programs' = programs
             /\ (needs' \notin DOMAIN mCache \/ ~isBlur(needs'))
                  => (glCalls' = <<>> /\ uniforms' = uniforms) ]_vars

\* changeUniform on a BLUR Key that is not cached.
C9_Witness ==
    /\ lastOp = "changeUniform"
    /\ isBlur(needs)
    /\ needs \notin DOMAIN mCache
    /\ program = NULL
    /\ glCalls = <<>>

\* How many operator<< arguments of a shader text are the block text.
Count(src, text) == Cardinality({ i \in DOMAIN src : src[i].text = text })

\* C10: the fragment text of a Key has the external-sampler extension
\* declaration iff the texture target is EXT; it has exactly one helper block
\* iff hasColorMatrix(), the sRGB one when isWideGamut() and the identity one
\* otherwise, and none without a colour matrix.
C10_FragmentBlocks ==
    lastOp = "useProgram"
      => LET fs == generateFragmentShader(needs)
         IN  /\ (Count(fs, EXT_DECLARATION) > 0) = (getTextureTarget(needs) = TEXTURE_EXT)
             /\ Count(fs, SRGB_HELPERS) + Count(fs, IDENTITY_HELPERS)
                  = (IF hasColorMatrix(needs) THEN 1 ELSE 0)
             /\ hasColorMatrix(needs)
                  => Count(fs, SRGB_HELPERS) = (IF isWideGamut(needs) THEN 1 ELSE 0)

\* useProgram generated the program of an EXT Key with a wide-gamut colour matrix.
C10_Witness ==
    /\ lastOp = "useProgram"
    /\ getTextureTarget(needs) = TEXTURE_EXT
    /\ hasColorMatrix(needs)
    /\ isWideGamut(needs)
    /\ program = Len(programs)
    /\ "colorMatrix" \in programs[program].locations

\* The statements of C11 and C15 in a fragment text.
UNPREMULTIPLY == "gl_FragColor.rgb = gl_FragColor.rgb / (gl_FragColor.a + 0.0019);"
MATRIX_MULTIPLY == "vec4 transformed = colorMatrix * vec4(EOTF_scRGB(gl_FragColor.rgb), 1);"
REPREMULTIPLY == "gl_FragColor.rgb = gl_FragColor.rgb * (gl_FragColor.a + 0.0019);"

\* Where the text src has the statement text.
Positions(src, text) == { i \in DOMAIN src : src[i].text = text }

\* C11: the fragment text of a Key with COLOR_MATRIX on, BLEND premultiplied
\* and OPACITY translucent has one un-premultiply statement before the colour
\* matrix multiply and one re-premultiply statement after it; with OPACITY
\* opaque it has neither statement.
C11_PremultiplyBracket ==
    (lastOp = "useProgram" /\ hasColorMatrix(needs))
      => LET fs == generateFragmentShader(needs)
             un == Positions(fs, UNPREMULTIPLY)
             mm == Positions(fs, MATRIX_MULTIPLY)
             re == Positions(fs, REPREMULTIPLY)
         IN  /\ Cardinality(mm) = 1
             /\ (isPremultiplied(needs) /\ ~isOpaque(needs))
                  => /\ Cardinality(un) = 1 /\ Cardinality(re) = 1
                     /\ \A u \in un, m \in mm, r \in re : u < m /\ m < r
             /\ isOpaque(needs) => (un = {} /\ re = {})

\* useProgram generated the program of a premultiplied, translucent Key with
\* a colour matrix.
C11_Witness ==
    /\ lastOp = "useProgram"
    /\ hasColorMatrix(needs)
    /\ isPremultiplied(needs)
    /\ ~isOpaque(needs)
    /\ program = Len(programs)

\* The uniform names the glUniform calls of the latest operation looked up.
LookedUp ==
    { glCalls[i].name : i \in { j \in DOMAIN glCalls :
                                  glCalls[j].call \in {"glUniform1i", "glUniform1f"} } }

\* C12 as stated: every uniform name useProgram or changeUniform looks up and
\* writes for a program of a Key is declared as a uniform in the vertex or
\* fragment text generated for that Key.
C12_NamesDeclared ==
    (lastOp \in {"useProgram", "changeUniform"} /\ program # NULL)
      => LookedUp \subseteq DeclaredUniforms(generateProgram(programs[program].needs))

\* The names a fragment text uses at a line with no declaration before it.
Undeclared(src) ==
    { n \in UNION { FsUses(src[i].text) : i \in DOMAIN src } :
        \E i \in DOMAIN src :
          /\ n \in FsUses(src[i].text)
          /\ \A j \in 1..(i - 1) : n \notin FsDeclares(src[j].text) }

\* C13 as stated: for every Key computeKey produces, every name the body of
\* the fragment text uses (sampler, outTexCoords, color, alphaPlane,
\* colorMatrix, rWidth, rHeight, iterator, saturation, sx, bx, sy, by, the
\* transfer functions) is declared earlier in that text.
C13_DeclaredBeforeUse ==
    lastOp = "useProgram" => Undeclared(generateFragmentShader(needs)) = {}

\* C13 for the Keys other than BLUR without texture: holds.
C13_DeclaredUnlessUntexturedBlur ==
    (lastOp = "useProgram" /\ ~(isBlur(needs) /\ ~isTexturing(needs)))
      => Undeclared(generateFragmentShader(needs)) = {}

\* The values glCalls writes with glUniform1i to the uniform name of program p
\* while p is active.
WrittenInt(p, name) ==
    { glCalls[i].value : i \in { j \in DOMAIN glCalls :
                                   /\ glCalls[j].call = "glUniform1i"
                                   /\ glCalls[j].on = p
                                   /\ glCalls[j].of = p
                                   /\ glCalls[j].name = name } }

\* C14: a useProgram that found or made a valid program first makes the
\* program of computeKey(description) active, then writes uniforms, all of
\* them with that program active; on return the active program is that
\* program and rWidth, rHeight were written the description's hwWidth, hwHeight.
C14_UseBeforeWrites ==
    (lastOp = "useProgram" /\ program # NULL /\ isValid(programs, program))
      => /\ programs[program].needs = computeKey(description)
         /\ mCache[computeKey(description)] = program
         /\ glCalls # <<>>
         /\ glCalls[1].call = "glUseProgram" /\ glCalls[1].of = program
         /\ \A i \in DOMAIN glCalls :
              /\ glCalls[i].call = "glUseProgram" => i = 1
              /\ glCalls[i].on = program
         /\ current = program
         /\ WrittenInt(program, "rWidth") = {description.hwWidth}
         /\ WrittenInt(program, "rHeight") = {description.hwHeight}

\* useProgram activated a primed program, after a lazily generated one was
\* cached, for a description whose width differs from its height.
C14_Witness ==
    /\ lastOp = "useProgram"
    /\ program # NULL
    /\ isValid(programs, program)
    /\ current = program
    /\ description.hwWidth # description.hwHeight
    /\ Len(glCalls) >= 4
    /\ Len(programs) > Cardinality(PrimeKeys)
    /\ program <= Cardinality(PrimeKeys)

\* The block of main() a statement belongs to: 1 base colour, 2 blur,
\* 3 force alpha to 1, 4 plane alpha, 5 colour matrix; 0 for any other line.
BlockOf(text) ==
    CASE text \in {"gl_FragColor = texture2D(sampler, outTexCoords);",
                   "gl_FragColor = color;"}                 -> 1
      [] text \in { BlurBody[i] : i \in DOMAIN BlurBody }  -> 2
      [] text = "gl_FragColor.a = 1.0;"                     -> 3
      [] text \in {"gl_FragColor *= alphaPlane;",
                   "gl_FragColor.a *= alphaPlane;"}         -> 4
      [] text \in {UNPREMULTIPLY, MATRIX_MULTIPLY, REPREMULTIPLY,
                   "gl_FragColor.rgb = OETF_scRGB(transformed.rgb);"} -> 5
      [] OTHER                                              -> 0

\* The blocks a text has.
BlocksOf(src) == { BlockOf(src[i].text) : i \in DOMAIN src } \ {0}

\* C15: in the fragment text of every Key the statements of main() come in
\* the order base colour, blur block (iff BLUR), alpha forced to 1 (iff
\* OPAQUE), plane-alpha multiply (iff PLANE_ALPHA is LT_ONE: all four channels
\* when premultiplied, alpha only otherwise), colour-matrix transform (iff
\* COLOR_MATRIX).
C15_BlockOrder ==
    lastOp = "useProgram"
      => LET fs == generateFragmentShader(needs)
         IN  /\ \A i, j \in DOMAIN fs :
                  (i < j /\ BlockOf(fs[i].text) # 0 /\ BlockOf(fs[j].text) # 0)
                    => BlockOf(fs[i].text) <= BlockOf(fs[j].text)
             /\ BlocksOf(fs) = {1} \cup (IF isBlur(needs) THEN {2} ELSE {})
                                   \cup (IF isOpaque(needs) THEN {3} ELSE {})
                                   \cup (IF hasPlaneAlpha(needs) THEN {4} ELSE {})
                                   \cup (IF hasColorMatrix(needs) THEN {5} ELSE {})
             /\ Count(fs, "gl_FragColor *= alphaPlane;")
                  = (IF hasPlaneAlpha(needs) /\ isPremultiplied(needs) THEN 1 ELSE 0)
             /\ Count(fs, "gl_FragColor.a *= alphaPlane;")
                  = (IF hasPlaneAlpha(needs) /\ ~isPremultiplied(needs) THEN 1 ELSE 0)

\* useProgram generated the program of a Key with all five blocks.
C15_Witness ==
    /\ lastOp = "useProgram"
    /\ isBlur(needs) /\ isOpaque(needs) /\ hasPlaneAlpha(needs) /\ hasColorMatrix(needs)
    /\ isPremultiplied(needs)
    /\ program = Len(programs)
    /\ programs[program].needs = needs

\* The two glUniform1i calls of C16 for blur number n, as (name, value) pairs.
ParityPairs(n) ==
    IF n % 2 = 0 THEN {<<"blurnum1", n>>, <<"blurnum2", 0>>}
                 ELSE {<<"blurnum2", n>>, <<"blurnum1", 0>>}

\* C16 as stated: a changeUniform whose Key has BLUR on and is cached writes
\* exactly two values, by the parity of the blur number: even, blurnum1 the
\* blur number and blurnum2 zero; odd, blurnum2 the blur number and blurnum1
\* zero.  A call writes when it has a location of the Key's program.
C16_ParityWrites ==
    (lastOp = "changeUniform" /\ isBlur(needs) /\ needs \in DOMAIN mCache)
      => /\ Len(glCalls) = 2
         /\ { <<glCalls[i].name, glCalls[i].value>> : i \in DOMAIN glCalls }
              = ParityPairs(description.blurnum)
         /\ \A i \in DOMAIN glCalls :
              glCalls[i].call = "glUniform1i" /\ glCalls[i].of = mCache[needs]

\* C16, the calls alone: two glUniform1i calls with the names and values of
\* the parity rule are issued; holds.
C16_ParityCallsIssued ==
    (lastOp = "changeUniform" /\ isBlur(needs) /\ needs \in DOMAIN mCache)
      => /\ Len(glCalls) = 2
         /\ { <<glCalls[i].name, glCalls[i].value>> : i \in DOMAIN glCalls }
              = ParityPairs(description.blurnum)
         /\ \A i \in DOMAIN glCalls : glCalls[i].call = "glUniform1i"

\* C17 as stated: every uniform write changeUniform makes applies to the
\* program cached for computeKey(description), whichever program the latest
\* useProgram activated, and nothing is written when that program is invalid:
\* each glUniform1i call is issued with the Key's program active and valid.
C17_WritesHitKeyProgram ==
    (lastOp = "changeUniform" /\ glCalls # <<>>)
      => /\ needs = computeKey(description)
         /\ program = mCache[needs]
         /\ isValid(programs, program)
         /\ \A i \in DOMAIN glCalls : glCalls[i].on = program

\* C17, the part that holds: changeUniform looks its uniforms up in the
\* program cached for computeKey(description).
C17_LooksUpKeyProgram ==
    (lastOp = "changeUniform" /\ glCalls # <<>>)
      => /\ needs = computeKey(description)
         /\ program = mCache[needs]
         /\ \A i \in DOMAIN glCalls : glCalls[i].of \in {0, program}

\* C18: with k the Key computed from a description d, getTextureTarget(k) is
\* the classified target, isTexturing(k) iff that target is not OFF,
\* hasPlaneAlpha(k) iff the plane alpha is below 1, isPremultiplied(k),
\* isOpaque(k), hasColorMatrix(k), isWideGamut(k), isBlur(k) iff the flag of d
\* is set: no field set later in the chain disturbs one set earlier.
C18_KeyRoundTrip ==
    lastOp = "changeUniform"
      => /\ getTextureTarget(needs) = StatedTexture(description)
         /\ isTexturing(needs) = (StatedTexture(description) # TEXTURE_OFF)
         /\ hasPlaneAlpha(needs) = (description.mPlaneAlpha < AlphaOne)
         /\ isPremultiplied(needs) = description.mPremultipliedAlpha
         /\ isOpaque(needs) = description.mOpaque
         /\ hasColorMatrix(needs) = description.mColorMatrixEnabled
         /\ isWideGamut(needs) = description.mIsWideGamut
         /\ isBlur(needs) = description.mBlur

\* changeUniform computed the Key of a description with premultiplied set
\* and opaque cleared.
C18_Witness ==
    /\ lastOp = "changeUniform"
    /\ description.mPremultipliedAlpha
    /\ ~description.mOpaque
    /\ isPremultiplied(needs)
    /\ ~isOpaque(needs)

\* The (name, value) pairs the calls cs write through a location of program p
\* with p active.
WritesOf(cs, p) ==
    { <<cs[i].name, cs[i].value>> : i \in { j \in DOMAIN cs :
                                              /\ cs[j].call \in {"glUniform1i", "glUniform1f"}
                                              /\ cs[j].on = p
                                              /\ cs[j].of = p } }

\* C19: a useProgram with a valid BLUR program and a blurnum outside 1..7
\* writes rWidth, rHeight, sx, bx, sy and by from the description and makes
\* no other glUniform call of its own: the program's iterator and saturation
\* stay what they were before the call (the values of the previous
\* useProgram on that program, if any).
C19_TapOutsideTable ==
    [][ ( /\ lastOp' = "useProgram"
          /\ program' # NULL
          /\ isValid(programs', program')
          /\ isBlur(needs')
          /\ description'.blurnum \notin 1..7 )
          => /\ WritesOf(glCalls', program')
                  = { <<"rHeight", description'.hwHeight>>,
                      <<"rWidth", description'.hwWidth>>,
                      <<"sx", description'.sx>>, <<"bx", description'.bx>>,
                      <<"sy", description'.sy>>, <<"by", description'.by>> }
             /\ \A i \in DOMAIN glCalls' :
                  glCalls'[i].name \notin {"iterator", "saturation"}
             /\ uniforms'[program'] = (IF program' \in DOMAIN uniforms
                                       THEN uniforms[program'] ELSE FreshUniforms) ]_vars

\* useProgram with a blurnum outside 1..7 on a BLUR program that still holds
\* the pair an earlier useProgram wrote for blurnum 7.
C19_Witness ==
    /\ lastOp = "useProgram"
    /\ program # NULL
    /\ isValid(programs, program)
    /\ isBlur(needs)
    /\ description.blurnum \notin 1..7
    /\ uniforms[program] = [iterator |-> 5, saturation |-> 2]

\* The declaration of the varying in a shader text.
VARYING == "varying vec2 outTexCoords;"

\* C20: the TEXTURE field of every cached Key is OFF, EXT or 2D, never the
\* fourth pattern of the field, and for every cached Key the vertex text
\* declares the outTexCoords varying exactly when the fragment text does.
C20_TextureFieldValid ==
    \A k \in DOMAIN mCache :
      /\ getTextureTarget(k) \in {TEXTURE_OFF, TEXTURE_EXT, TEXTURE_2D}
      /\ programs[mCache[k]].needs = k
      /\ (Count(generateVertexShader(k), VARYING) = 1)
           = (Count(generateFragmentShader(k), VARYING) = 1)
      /\ Count(generateVertexShader(k), VARYING) <= 1
      /\ Count(generateFragmentShader(k), VARYING) <= 1

\* The cache after useProgram added a Key that textures from the external
\* target with BLUR on, next to the primed Keys.
C20_Witness ==
    /\ lastOp = "useProgram"
    /\ getTextureTarget(needs) = TEXTURE_EXT
    /\ isBlur(needs)
    /\ needs \in DOMAIN mCache
    /\ Cardinality(DOMAIN mCache) > Cardinality(PrimeKeys)
====
